---- MODULE Spec2Model ----
(***************************************************************************)
(* Model of the Telegram persona bot: the sliding-window RateLimiter, the  *)
(* addressing classifier, the response gate and the per-message handling   *)
(* pipeline of TelegramClaudeBot.handle_new_message (src/main.py), driven  *)
(* by the new-message callback of TelegramBot (src/telegram_client.py).    *)
(*                                                                         *)
(* Scores and random draws are integers in hundredths (0.4 is 40): every   *)
(* sum the classifier can form compares with 0.2 and 0.4 exactly as the    *)
(* floating-point sum does.  Texts are sequences of characters, so that    *)
(* lower(), startswith() and the substring test are computed, not assumed. *)
(* The clock is a counter of ticks that never goes back.                   *)
(*                                                                         *)
(* Further specifications share the module: TypingSpec follows one         *)
(* invocation of TelegramBot.type_while_processing, StartupSpec follows    *)
(* TelegramClaudeBot.run from the environment to the keep-alive loop,      *)
(* ResponderSpec applies the two operations of ClaudeHandler to every way  *)
(* a completion request can end, ClassifierSpec applies the classifier to  *)
(* texts composed from its vocabularies, TypingTimeSpec applies            *)
(* calculate_boomer_typing_time to texts of many lengths (durations in     *)
(* quarters of a second), ContextSpec applies get_message_context to       *)
(* group histories, CycleSpec follows one handling cycle with every        *)
(* request it makes to the messaging service (CycleFairSpec adds the       *)
(* fairness of the event loop and of the collaborators), NonDirectSpec is  *)
(* the pipeline fed with messages without direct trigger only and          *)
(* TriggeredSpec the pipeline fed with direct triggers and images only;    *)
(* EchoSpec feeds the pipeline the agent's own replies.                    *)
(***************************************************************************)
EXTENDS Integers, Sequences, FiniteSets, Bags, TLC

VARIABLES now, message_times, cycles, chat, log

vars == <<now, message_times, cycles, chat, log>>

\* One invocation of TelegramBot.type_while_processing: its locals and the
\* typing-presence signals it has put on the wire.
VARIABLES tw, signals

typing_vars == <<tw, signals>>

\* TelegramClaudeBot.run: where it is, the environment it was started in and
\* what it has set up so far.
VARIABLES run

\* The last call of the responder (ClaudeHandler) and what it returned; the
\* last text the classifier scored and its score.
VARIABLES api, scored

\* The last call of calculate_boomer_typing_time with the values its random
\* calls returned and its result; the last context list that
\* get_message_context built.
VARIABLES typed, context

\* One handling cycle followed request by request, from the context fetch
\* of the callback to the end of handle_new_message: where it is, the
\* response it got and the collaborator requests that failed on its way.
VARIABLES handling

\* Everything but the state of the handling cycles.
beyond_handler == <<tw, signals, run, api, scored, typed, context, handling>>

all_vars == <<vars, beyond_handler>>

\* ---------------------------------------------------------------- bounds
\* Last tick of the clock.
MaxTime == 4
\* Number of handler tasks the event loop may hold at once.
NumHandlers == 2
\* Replies in flight plus replies sent never exceed this.
MaxSends == 3
\* RATE_LIMIT_MESSAGES and RATE_LIMIT_WINDOW of the configuration, in ticks.
max_messages == 2
window_seconds == 2

\* ------------------------------------------------------------------ text
\* message.text is None.
NoneText == <<"None">>

\* Sample texts of inbound messages.
TextBelTempo == <<"b","e","l"," ","t","e","m","p","o"," ","o","g","g","i">>
TextBoh == <<"B","o","h">>
TextBohQuestion == <<"b","o","h","?">>
TextWifiBoh == <<"w","i","f","i"," ","b","o","h">>
TextWhatsapp == <<"c","i","a","o"," ","r","a","g","a","z","z","i",","," ","q","u","a","l","c","u","n","o"," ","s","a"," ","c","o","m","e"," ","s","i"," ","a","g","g","i","o","r","n","a"," ","w","h","a","t","s","a","p","p","?">>
TextMention == <<"s","e","n","t","i"," ","R","i","c","c","a","r","d","o">>
TextQuestion == <<"?">>

\* The vocabularies of calculate_address_probability.
question_starters ==
    << <<"c","o","m","e">>,
       <<"c","o","s","a">>,
       <<"p","e","r","c","h","é">>,
       <<"q","u","a","n","d","o">>,
       <<"d","o","v","e">>,
       <<"c","h","i">>,
       <<"q","u","a","l","e">>,
       <<"q","u","a","n","t","o">> >>
tech_keywords ==
    << <<"a","p","p">>,
       <<"w","i","f","i">>,
       <<"i","n","t","e","r","n","e","t">>,
       <<"c","o","m","p","u","t","e","r">>,
       <<"t","e","l","e","f","o","n","o">>,
       <<"w","h","a","t","s","a","p","p">>,
       <<"t","e","l","e","g","r","a","m">>,
       <<"i","n","s","t","a","l","l","a","r","e">>,
       <<"s","c","a","r","i","c","a","r","e">>,
       <<"a","g","g","i","o","r","n","a","m","e","n","t","o">>,
       <<"p","a","s","s","w","o","r","d">>,
       <<"e","m","a","i","l">>,
       <<"f","o","t","o">>,
       <<"v","i","d","e","o">>,
       <<"l","i","n","k">>,
       <<"b","r","o","w","s","e","r">>,
       <<"g","o","o","g","l","e">>,
       <<"f","a","c","e","b","o","o","k">>,
       <<"i","n","s","t","a","g","r","a","m">> >>
help_phrases ==
    << <<"a","i","u","t","o">>,
       <<"a","i","u","t","a","r","e">>,
       <<"s","p","i","e","g","a","r","e">>,
       <<"n","o","n"," ","c","a","p","i","s","c","o">>,
       <<"n","o","n"," ","r","i","e","s","c","o">>,
       <<"c","o","m","e"," ","f","a","c","c","i","o">>,
       <<"q","u","a","l","c","u","n","o"," ","s","a">>,
       <<"q","u","a","l","c","u","n","o"," ","p","u","ò">>,
       <<"c","h","e"," ","n","e"," ","p","e","n","s","a","t","e">>,
       <<"c","o","s","a"," ","f","a","t","e">>,
       <<"c","o","n","s","i","g","l","i">> >>
group_address ==
    << <<"r","a","g","a","z","z","i">>,
       <<"t","u","t","t","i">>,
       <<"q","u","a","l","c","u","n","o">>,
       <<"c","i","a","o">>,
       <<"s","a","l","v","e">>,
       <<"b","u","o","n","g","i","o","r","n","o">>,
       <<"b","u","o","n","a","s","e","r","a">> >>
confusion_words ==
    << <<"c","o","n","f","u","s","o">>,
       <<"c","a","p","i","r","e">>,
       <<"s","p","i","e","g","a","z","i","o","n","e">>,
       <<"n","o","n"," ","s","o">>,
       <<"b","o","h">>,
       <<"m","a","h">> >>

\* The texts an inbound message may carry.
Texts ==
    {NoneText, TextBelTempo, TextQuestion, TextBoh, TextWifiBoh, TextBohQuestion,
     TextWhatsapp, TextMention}

UpperCase ==
    <<"A","B","C","D","E","F","G","H","I","J","K","L","M",
      "N","O","P","Q","R","S","T","U","V","W","X","Y","Z">>
LowerCase ==
    <<"a","b","c","d","e","f","g","h","i","j","k","l","m",
      "n","o","p","q","r","s","t","u","v","w","x","y","z">>

\* str.lower()
lower(text) ==
    [i \in 1..Len(text) |->
        IF \E k \in 1..Len(UpperCase) : UpperCase[k] = text[i]
        THEN LowerCase[CHOOSE k \in 1..Len(UpperCase) : UpperCase[k] = text[i]]
        ELSE text[i]]

\* text.startswith(q)
startswith(text, q) ==
    /\ Len(q) <= Len(text)
    /\ SubSeq(text, 1, Len(q)) = q

\* word in text
contains(word, text) ==
    \E i \in 1..(Len(text) - Len(word) + 1) :
        SubSeq(text, i, i + Len(word) - 1) = word

\* any(predicate over a list)
AnyIn(list, text) ==
    \E k \in 1..Len(list) : contains(list[k], text)

\* sum(1 for keyword in list if keyword in text)
CountIn(list, text) ==
    Cardinality({k \in 1..Len(list) : contains(list[k], text)})

Min(a, b) == IF a < b THEN a ELSE b

\* message.text.lower() if message.text else ""
message_text_of(text) ==
    IF text = NoneText \/ text = <<>> THEN <<>> ELSE lower(text)

\* ------------------------------------------------------------ classifier
\* Mutant of calculate_address_probability: the sum is not clamped.
calculate_address_probability_unclamped(message_text) ==
    IF message_text = <<>> THEN 0
    ELSE LET text == lower(message_text)
             starter == IF \E k \in 1..Len(question_starters) :
                               startswith(text, question_starters[k])
                        THEN 30 ELSE 0
             tech == Min(CountIn(tech_keywords, text) * 15, 40)
             help == IF AnyIn(help_phrases, text) THEN 35 ELSE 0
             mark == IF contains(<<"?">>, text) THEN 20 ELSE 0
             group == IF AnyIn(group_address, text) THEN 15 ELSE 0
             confusion == IF AnyIn(confusion_words, text) THEN 25 ELSE 0
         IN starter + tech + help + mark + group + confusion

\* Mutant of calculate_address_probability: the rules are chained with
\* elif, so only the first rule that matches adds its weight.
calculate_address_probability_first_rule(message_text) ==
    IF message_text = <<>> THEN 0
    ELSE LET text == lower(message_text)
             starter == IF \E k \in 1..Len(question_starters) :
                               startswith(text, question_starters[k])
                        THEN 30 ELSE 0
             tech == Min(CountIn(tech_keywords, text) * 15, 40)
             help == IF AnyIn(help_phrases, text) THEN 35 ELSE 0
             mark == IF contains(<<"?">>, text) THEN 20 ELSE 0
             group == IF AnyIn(group_address, text) THEN 15 ELSE 0
             confusion == IF AnyIn(confusion_words, text) THEN 25 ELSE 0
         IN IF starter > 0 THEN starter
            ELSE IF tech > 0 THEN tech
            ELSE IF help > 0 THEN help
            ELSE IF mark > 0 THEN mark
            ELSE IF group > 0 THEN group
            ELSE confusion

\* TelegramClaudeBot.calculate_address_probability, in hundredths.
calculate_address_probability(message_text) ==
    IF message_text = <<>> THEN 0
    ELSE LET text == lower(message_text)
             starter == IF \E k \in 1..Len(question_starters) :
                               startswith(text, question_starters[k])
                        THEN 30 ELSE 0
             tech == Min(CountIn(tech_keywords, text) * 15, 40)
             help == IF AnyIn(help_phrases, text) THEN 35 ELSE 0
             mark == IF contains(<<"?">>, text) THEN 20 ELSE 0
             group == IF AnyIn(group_address, text) THEN 15 ELSE 0
             confusion == IF AnyIn(confusion_words, text) THEN 25 ELSE 0
         IN Min(starter + tech + help + mark + group + confusion, 100)

\* The score of each text, computed once.
address_probability == [t \in Texts |-> calculate_address_probability(message_text_of(t))]

\* "@ruphy" in message_text or "riccardo" in message_text
has_mention(text) ==
    \/ contains(<<"@","r","u","p","h","y">>, message_text_of(text))
    \/ contains(<<"r","i","c","c","a","r","d","o">>, message_text_of(text))

mentioned == [t \in Texts |-> has_mention(t)]

\* ------------------------------------------------------------------ gate
\* Values of random.random(), in hundredths of [0, 1).
Draws == {0, 5, 30, 99}
NoDraw == 0 - 1

\* An inbound event as handed to the handlers: message.text,
\* message.reply_to_msg_id (set or not), message_data['current_image']
\* (present or not) and sender.bot.  reply_to_own says whose message the
\* reply target is: one this account sent, or one of another participant;
\* no handler reads it.
Messages ==
    [text : Texts, reply_to_msg_id : {FALSE}, reply_to_own : {FALSE},
     current_image : BOOLEAN, bot : {FALSE}]
    \cup [text : Texts, reply_to_msg_id : {TRUE}, reply_to_own : {TRUE},
          current_image : BOOLEAN, bot : {FALSE}]
    \cup [text : {TextBelTempo, TextWhatsapp}, reply_to_msg_id : {TRUE},
          reply_to_own : {FALSE}, current_image : {FALSE}, bot : {FALSE}]
    \cup [text : Texts, reply_to_msg_id : {FALSE}, reply_to_own : {FALSE},
          current_image : {FALSE}, bot : {TRUE}]

\* Mutant of is_direct: the mentions are forgotten.
is_direct_reply_only(m) == m.reply_to_msg_id

\* message.reply_to_msg_id or "@ruphy" in message_text or "riccardo" in message_text
is_direct(m) == m.reply_to_msg_id \/ mentioned[m.text]

\* Mutant of should_respond_to_message: the high threshold is 0.45.
should_respond_high_threshold(m, coin, fallback) ==
    LET p == address_probability[m.text]
        yes == [respond |-> TRUE, coin_used |-> FALSE, fallback_used |-> FALSE]
    IN IF m.reply_to_msg_id THEN yes
       ELSE IF mentioned[m.text] THEN yes
       ELSE IF m.current_image THEN yes
       ELSE IF p > 45 THEN yes
       ELSE IF p > 20 /\ coin < p
            THEN [respond |-> TRUE, coin_used |-> TRUE, fallback_used |-> FALSE]
       ELSE [respond |-> fallback < 5, coin_used |-> p > 20, fallback_used |-> TRUE]

\* Mutant of should_respond_to_message: the medium band starts at 0.2 included.
should_respond_medium_inclusive(m, coin, fallback) ==
    LET p == address_probability[m.text]
        yes == [respond |-> TRUE, coin_used |-> FALSE, fallback_used |-> FALSE]
    IN IF m.reply_to_msg_id THEN yes
       ELSE IF mentioned[m.text] THEN yes
       ELSE IF m.current_image THEN yes
       ELSE IF p > 40 THEN yes
       ELSE IF p >= 20 /\ coin < p
            THEN [respond |-> TRUE, coin_used |-> TRUE, fallback_used |-> FALSE]
       ELSE [respond |-> fallback < 5, coin_used |-> p >= 20, fallback_used |-> TRUE]

\* TelegramClaudeBot.should_respond_to_message.  coin and fallback are the
\* values the two calls of random.random() return if they are made; the
\* result says which of them were made.
should_respond_to_message(m, coin, fallback) ==
    LET p == address_probability[m.text]
        yes == [respond |-> TRUE, coin_used |-> FALSE, fallback_used |-> FALSE]
    IN IF m.reply_to_msg_id THEN yes
       ELSE IF mentioned[m.text] THEN yes
       ELSE IF m.current_image THEN yes
       ELSE IF p > 40 THEN yes
       ELSE IF p > 20 /\ coin < p
            THEN [respond |-> TRUE, coin_used |-> TRUE, fallback_used |-> FALSE]
       ELSE [respond |-> fallback < 5, coin_used |-> p > 20, fallback_used |-> TRUE]

\* For each message, the draws random.random() can return on the calls
\* should_respond_to_message makes for it (NoDraw for a call it does not make).
tapes ==
    [m \in Messages |->
        {<<IF should_respond_to_message(m, c, f).coin_used THEN c ELSE NoDraw,
           IF should_respond_to_message(m, c, f).fallback_used THEN f ELSE NoDraw>> :
            c \in Draws, f \in Draws}]

\* ---------------------------------------------------------- rate limiter
\* The while loop of RateLimiter.can_send_message: popleft while the oldest
\* timestamp is older than now - window_seconds.
RECURSIVE PruneLate(_, _)
\* Mutant of Prune: the window is taken one tick too long.
PruneLate(times, t) ==
    IF times # <<>> /\ Head(times) < t - window_seconds - 1
    THEN PruneLate(Tail(times), t)
    ELSE times

RECURSIVE PruneInclusive(_, _)
\* Mutant of Prune: a timestamp exactly window_seconds old is dropped too.
PruneInclusive(times, t) ==
    IF times # <<>> /\ Head(times) <= t - window_seconds
    THEN PruneInclusive(Tail(times), t)
    ELSE times

RECURSIVE Prune(_, _)
Prune(times, t) ==
    IF times # <<>> /\ Head(times) < t - window_seconds
    THEN Prune(Tail(times), t)
    ELSE times

\* Mutant of can_send_message: the limit is compared with <=.
can_send_message_inclusive(times, t) ==
    [times |-> Prune(times, t), result |-> Len(Prune(times, t)) <= max_messages]

\* RateLimiter.can_send_message at time t: the deque it leaves and its answer.
can_send_message(times, t) ==
    [times |-> Prune(times, t), result |-> Len(Prune(times, t)) < max_messages]

\* Mutant of record_message: the timestamp is put at the front (appendleft).
record_message_front(times, t) == <<t>> \o times

\* RateLimiter.record_message at time t.
record_message(times, t) == Append(times, t)

\* -------------------------------------------------------------- pipeline
\* What process_message returns: None, or the stripped, non-empty content.
NoneResponse == "None"
Responses == {NoneResponse, "va bene"}

\* if response:
Truthy(response) == response # NoneResponse /\ response # ""

\* A handling cycle suspended at an await of handle_new_message: where it
\* waits, and for a sleep whether its delay has elapsed.
Cycle(pc, elapsed) == [pc |-> pc, elapsed |-> elapsed]

One(c) == SetToBag({c})

NoMessage ==
    [text |-> NoneText, reply_to_msg_id |-> FALSE, reply_to_own |-> FALSE,
     current_image |-> FALSE, bot |-> FALSE]

\* The line the handler logs at a step, with what the step looked at.
LogLine(event) ==
    [event |-> event, msg |-> NoMessage, coin |-> NoDraw, fallback |-> NoDraw,
     rate_checked |-> FALSE, can_send |-> FALSE]

InFlight == BagCardinality(cycles)

\* ------------------------------------------------------------ configuration
Digits == {"0", "1", "2", "3", "4", "5", "6", "7", "8", "9"}

\* int(value) of a setting does not raise ValueError.
IsInt(value) == value # <<>> /\ \A i \in DOMAIN value : value[i] \in Digits

valid_styles == {"formal", "casual", "technical"}
valid_log_levels == {"DEBUG", "INFO", "WARNING", "ERROR"}

\* The process environment: the three required settings as texts (empty when
\* unset), the other settings as the values their conversions give.  The
\* rate limit is the one the limiter of this model runs with, or zero.
Envs ==
    [TELEGRAM_API_ID : {<<>>, <<"1", "2", "3">>, <<"a", "b", "c">>},
     TELEGRAM_API_HASH : {<<>>, <<"f", "0">>},
     TELEGRAM_PHONE_NUMBER : {<<>>, <<"+", "3", "9">>},
     RESPONSE_STYLE : {"casual", "formal", "weird"},
     LOG_LEVEL : {"INFO", "TRACE"},
     CONTEXT_MESSAGES : {0, 20},
     RESPONSE_DELAY : {<<1, 3>>, <<3, 1>>, <<0 - 1, 3>>},
     RATE_LIMIT_MESSAGES : {0, max_messages},
     RATE_LIMIT_WINDOW : {0, window_seconds},
     IGNORE_BOTS : {<<"t","r","u","e">>, <<"F","a","l","s","e">>}]

DefaultEnv ==
    [TELEGRAM_API_ID |-> <<"1", "2", "3">>, TELEGRAM_API_HASH |-> <<"f", "0">>,
     TELEGRAM_PHONE_NUMBER |-> <<"+", "3", "9">>, RESPONSE_STYLE |-> "casual",
     LOG_LEVEL |-> "INFO", CONTEXT_MESSAGES |-> 20, RESPONSE_DELAY |-> <<1, 3>>,
     RATE_LIMIT_MESSAGES |-> max_messages, RATE_LIMIT_WINDOW |-> window_seconds,
     IGNORE_BOTS |-> <<"t","r","u","e">>]

\* missing_vars of load_config.
missing_vars(env) ==
    {var \in {"TELEGRAM_API_ID", "TELEGRAM_API_HASH", "TELEGRAM_PHONE_NUMBER"} :
        env[var] = <<>>}

\* load_config raises ValueError: a required setting is missing, or
\* int(TELEGRAM_API_ID) fails.
load_config_raises(env) ==
    \/ missing_vars(env) # {}
    \/ ~IsInt(env.TELEGRAM_API_ID)

\* validate_config raises ValueError.
validate_config_raises(env) ==
    \/ env.RESPONSE_STYLE \notin valid_styles
    \/ env.LOG_LEVEL \notin valid_log_levels
    \/ env.CONTEXT_MESSAGES < 1
    \/ env.RESPONSE_DELAY[1] < 0 \/ env.RESPONSE_DELAY[2] < env.RESPONSE_DELAY[1]
    \/ env.RATE_LIMIT_MESSAGES < 1 \/ env.RATE_LIMIT_WINDOW < 1

\* run() before its first statement.
NotStarted(env) ==
    [pc |-> "new", env |-> env, message_handler |-> FALSE, connected |-> FALSE,
     monitoring |-> FALSE, greeting |-> NoneResponse, greeting_sends |-> 0]

\* run() in its keep-alive loop, no greeting having been generated.
Monitoring ==
    [NotStarted(DefaultEnv) EXCEPT !.pc = "running", !.message_handler = TRUE,
                                   !.connected = TRUE, !.monitoring = TRUE]

\* os.getenv("IGNORE_BOTS", "true").lower() == "true", computed once for
\* each value of the variable.
parse_ignore_bots ==
    [value \in {env.IGNORE_BOTS : env \in Envs} |-> lower(value) = <<"t","r","u","e">>]

\* config.safety.ignore_bots of the running bot.
ignore_bots == parse_ignore_bots[run.env.IGNORE_BOTS]

\* The responder and the classifier before any call.
NoCall == [operation |-> "none"]
NoScore == [text |-> NoneText, score |-> 0]

\* calculate_boomer_typing_time and get_message_context before any call.
NoTyped == [called |-> FALSE]
NoContext == [called |-> FALSE]

\* No handling cycle is followed request by request.
NoHandling == [pc |-> "idle", response |-> NoneResponse, failures |-> {}]

\* type_while_processing before it is called.
NoTyping ==
    [pc |-> "idle", selected_group |-> TRUE, typing_active |-> FALSE,
     typing_task |-> "none", cancel_requested |-> FALSE, outcome |-> "none",
     swallowed |-> FALSE]

Init ==
    /\ now = 0
    /\ message_times = <<>>
    /\ cycles = EmptyBag
    /\ chat = 0
    /\ log = LogLine("start")
    /\ tw = NoTyping
    /\ signals = <<>>
    /\ run = Monitoring
    /\ api = NoCall
    /\ scored = NoScore
    /\ typed = NoTyped
    /\ context = NoContext
    /\ handling = NoHandling

\* The synchronous head of a handling cycle: the new-message callback of
\* TelegramBot.start_monitoring (sender filter), then handle_new_message up
\* to its first await: bot filter, gate, rate check.  Gives the line logged
\* and the deque the rate check leaves.
Decide(m, coin, fallback, times, t) ==
    LET gate == should_respond_to_message(m, coin, fallback)
        rate == can_send_message(times, t)
        seen == [LogLine("thinking") EXCEPT !.msg = m, !.coin = coin, !.fallback = fallback]
    IN IF m.bot
       THEN [line |-> [LogLine("skip_bot") EXCEPT !.msg = m], times |-> times]
       ELSE IF ignore_bots /\ m.bot
       THEN [line |-> [LogLine("skip_bot") EXCEPT !.msg = m], times |-> times]
       ELSE IF ~gate.respond
       THEN [line |-> [seen EXCEPT !.event = "skip_gate"], times |-> times]
       ELSE IF is_direct(m)
       THEN [line |-> seen, times |-> times]
       ELSE IF ~rate.result
       THEN [line |-> [seen EXCEPT !.event = "skip_rate", !.rate_checked = TRUE],
             times |-> rate.times]
       ELSE [line |-> [seen EXCEPT !.rate_checked = TRUE, !.can_send = TRUE],
             times |-> rate.times]

\* handle_new_message, from the event to its first await (the thinking delay).
Deliver(m, coin, fallback) ==
    /\ InFlight < NumHandlers
    /\ chat + InFlight < MaxSends
    /\ LET r == Decide(m, coin, fallback, message_times, now)
       IN /\ log' = r.line
          /\ message_times' = r.times
          /\ cycles' = IF r.line.event = "thinking"
                       THEN cycles (+) One(Cycle("THINKING_DELAY", FALSE))
                       ELSE cycles
    /\ UNCHANGED <<now, chat>>

\* The delay of an asyncio.sleep elapses.
Elapse(pc) ==
    /\ BagIn(Cycle(pc, FALSE), cycles)
    /\ cycles' = (cycles (-) One(Cycle(pc, FALSE))) (+) One(Cycle(pc, TRUE))
    /\ UNCHANGED <<now, message_times, chat, log>>

\* Mutant of StartGeneration: the thinking delay is not awaited.
StartGenerationEarly ==
    /\ BagIn(Cycle("THINKING_DELAY", FALSE), cycles)
    /\ cycles' = (cycles (-) One(Cycle("THINKING_DELAY", FALSE)))
                 (+) One(Cycle("GENERATING", FALSE))
    /\ log' = LogLine("generating")
    /\ UNCHANGED <<now, message_times, chat>>

\* await asyncio.sleep(thinking_delay) returns; type_while_processing starts
\* the completion request.
StartGeneration ==
    /\ BagIn(Cycle("THINKING_DELAY", TRUE), cycles)
    /\ cycles' = (cycles (-) One(Cycle("THINKING_DELAY", TRUE)))
                 (+) One(Cycle("GENERATING", FALSE))
    /\ log' = LogLine("generating")
    /\ UNCHANGED <<now, message_times, chat>>

\* Mutant of GenerationReturns: the response is not tested.
GenerationReturnsUntested(response) ==
    /\ BagIn(Cycle("GENERATING", FALSE), cycles)
    /\ cycles' = (cycles (-) One(Cycle("GENERATING", FALSE)))
                 (+) One(Cycle("TYPING", FALSE))
    /\ log' = LogLine("typing")
    /\ UNCHANGED <<now, message_times, chat>>

\* type_while_processing returns the response; `if response:` either starts
\* the typing delay or ends the cycle.
GenerationReturns(response) ==
    /\ BagIn(Cycle("GENERATING", FALSE), cycles)
    /\ IF Truthy(response)
       THEN /\ cycles' = (cycles (-) One(Cycle("GENERATING", FALSE)))
                         (+) One(Cycle("TYPING", FALSE))
            /\ log' = LogLine("typing")
       ELSE /\ cycles' = cycles (-) One(Cycle("GENERATING", FALSE))
            /\ log' = LogLine("no_response")
    /\ UNCHANGED <<now, message_times, chat>>

\* Mutant of Send: the send is recorded whether or not it raised.
SendRecordsAlways(ok) ==
    /\ BagIn(Cycle("TYPING", TRUE), cycles)
    /\ cycles' = cycles (-) One(Cycle("TYPING", TRUE))
    /\ message_times' = record_message(message_times, now)
    /\ IF ok
       THEN /\ chat' = chat + 1
            /\ log' = LogLine("sent")
       ELSE /\ log' = LogLine("error")
            /\ UNCHANGED chat
    /\ UNCHANGED now

\* Mutant of Send: a send is recorded only while the window is not full,
\* so replies that bypassed the rate check take no place in it.
SendRecordsBelowLimit(ok) ==
    /\ BagIn(Cycle("TYPING", TRUE), cycles)
    /\ cycles' = cycles (-) One(Cycle("TYPING", TRUE))
    /\ IF ok
       THEN /\ chat' = chat + 1
            /\ message_times' = IF Len(message_times) < max_messages
                                THEN record_message(message_times, now)
                                ELSE message_times
            /\ log' = LogLine("sent")
       ELSE /\ log' = LogLine("error")
            /\ UNCHANGED <<chat, message_times>>
    /\ UNCHANGED now

\* await asyncio.sleep(typing_time) returns; send_message, then
\* record_message if it did not raise.
Send(ok) ==
    /\ BagIn(Cycle("TYPING", TRUE), cycles)
    /\ cycles' = cycles (-) One(Cycle("TYPING", TRUE))
    /\ IF ok
       THEN /\ chat' = chat + 1
            /\ message_times' = record_message(message_times, now)
            /\ log' = LogLine("sent")
       ELSE /\ log' = LogLine("error")
            /\ UNCHANGED <<chat, message_times>>
    /\ UNCHANGED now

\* A tick of the clock.
Tick ==
    /\ now < MaxTime
    /\ now' = now + 1
    /\ UNCHANGED <<message_times, cycles, chat, log>>

\* Mutant of FetchFails: the exception is not caught in the callback and
\* takes the monitoring down.
FetchFailsUncaught ==
    /\ run.monitoring
    /\ InFlight < NumHandlers
    /\ chat + InFlight < MaxSends
    /\ log' = LogLine("callback_error")
    /\ run' = [run EXCEPT !.monitoring = FALSE]
    /\ UNCHANGED <<now, message_times, cycles, chat, tw, signals, api, scored, typed, context, handling>>

\* The new-message callback raises before it reaches handle_new_message
\* (get_sender, get_message_context); its except clause logs the error.
FetchFails ==
    /\ run.monitoring
    /\ InFlight < NumHandlers
    /\ chat + InFlight < MaxSends
    /\ log' = LogLine("callback_error")
    /\ UNCHANGED <<now, message_times, cycles, chat, run, tw, signals, api, scored, typed, context, handling>>

\* The registered callback is run for a new message of the group.
HandleEvent ==
    \E m \in Messages : \E tape \in tapes[m] :
        /\ run.monitoring
        /\ UNCHANGED beyond_handler
        /\ Deliver(m, tape[1], tape[2])

Next ==
    \/ HandleEvent
    \/ FetchFails
    \/ \E pc \in {"THINKING_DELAY", "TYPING"} : UNCHANGED beyond_handler /\ Elapse(pc)
    \/ UNCHANGED beyond_handler /\ StartGeneration
    \/ \E response \in Responses : UNCHANGED beyond_handler /\ GenerationReturns(response)
    \/ \E ok \in BOOLEAN : UNCHANGED beyond_handler /\ Send(ok)
    \/ UNCHANGED beyond_handler /\ Tick

Spec == Init /\ [][Next]_all_vars

\* --------------------------------------------- non-direct messages only
\* The messages of participants that carry no direct trigger.
NonDirectMessages == {m \in Messages : ~m.bot /\ ~is_direct(m)}

\* An event without direct trigger reaches the handler.
HandleNonDirect ==
    \E m \in NonDirectMessages : \E tape \in tapes[m] :
        /\ run.monitoring
        /\ UNCHANGED beyond_handler
        /\ Deliver(m, tape[1], tape[2])

\* The pipeline when every event is a message without direct trigger, so
\* that every reply sent is a reply to such a message.
NonDirectNext ==
    \/ HandleNonDirect
    \/ \E pc \in {"THINKING_DELAY", "TYPING"} : UNCHANGED beyond_handler /\ Elapse(pc)
    \/ UNCHANGED beyond_handler /\ StartGeneration
    \/ \E response \in Responses : UNCHANGED beyond_handler /\ GenerationReturns(response)
    \/ \E ok \in BOOLEAN : UNCHANGED beyond_handler /\ Send(ok)
    \/ UNCHANGED beyond_handler /\ Tick

NonDirectSpec == Init /\ [][NonDirectNext]_all_vars

\* ------------------------------------------ direct triggers and images only
\* The messages of participants that carry a direct trigger or an image.
TriggeredMessages == {m \in Messages : ~m.bot /\ (is_direct(m) \/ m.current_image)}

\* An event with a direct trigger or an image reaches the handler; the gate
\* makes no draw for it.
HandleTriggered ==
    \E m \in TriggeredMessages :
        /\ run.monitoring
        /\ UNCHANGED beyond_handler
        /\ Deliver(m, NoDraw, NoDraw)

\* The pipeline when every event carries a direct trigger or an image, so
\* that every reply sent is a reply to such a message.
TriggeredNext ==
    \/ HandleTriggered
    \/ \E pc \in {"THINKING_DELAY", "TYPING"} : UNCHANGED beyond_handler /\ Elapse(pc)
    \/ UNCHANGED beyond_handler /\ StartGeneration
    \/ \E response \in Responses : UNCHANGED beyond_handler /\ GenerationReturns(response)
    \/ \E ok \in BOOLEAN : UNCHANGED beyond_handler /\ Send(ok)
    \/ UNCHANGED beyond_handler /\ Tick

TriggeredSpec == Init /\ [][TriggeredNext]_all_vars

\* ------------------------------------------------- own outgoing messages
\* The text of a response as the text of the message that carries it.
text_of(response) ==
    IF response = "va bene" THEN <<"v","a"," ","b","e","n","e">> ELSE NoneText

\* A reply the agent has sent, as it comes back in an event of the group:
\* events.NewMessage(chats=...) is registered with neither incoming nor
\* outgoing set, so it matches messages of this account too.  The reply was
\* sent with reply_to, the sender is a user and not a bot.
OwnReplies ==
    {[text |-> text_of(response), reply_to_msg_id |-> TRUE, reply_to_own |-> FALSE,
      current_image |-> FALSE, bot |-> FALSE] : response \in {r \in Responses : Truthy(r)}}

\* A reply of a participant to a message of the agent opens the exchange.
FirstEvent ==
    \E m \in {x \in Messages : x.reply_to_own /\ ~x.current_image /\ x.text = TextBelTempo} :
        /\ run.monitoring
        /\ chat = 0
        /\ InFlight = 0
        /\ UNCHANGED beyond_handler
        /\ Deliver(m, NoDraw, NoDraw)

\* A reply the agent has sent reaches the callback as a new message.
HandleOwn ==
    \E m \in OwnReplies :
        /\ run.monitoring
        /\ chat > 0
        /\ UNCHANGED beyond_handler
        /\ Deliver(m, NoDraw, NoDraw)

\* The pipeline when, after one message of a participant, the only events
\* are the agent's own replies.
EchoNext ==
    \/ FirstEvent
    \/ HandleOwn
    \/ \E pc \in {"THINKING_DELAY", "TYPING"} : UNCHANGED beyond_handler /\ Elapse(pc)
    \/ UNCHANGED beyond_handler /\ StartGeneration
    \/ \E response \in Responses : UNCHANGED beyond_handler /\ GenerationReturns(response)
    \/ \E ok \in BOOLEAN : UNCHANGED beyond_handler /\ Send(ok)
    \/ UNCHANGED beyond_handler /\ Tick

EchoSpec == Init /\ [][EchoNext]_all_vars

\* ------------------------------------------------------------------ run()
\* start_typing: nothing without a group, else one 'typing' request.
start_typing(group, sigs) == IF ~group THEN sigs ELSE Append(sigs, "typing")

\* run() has left through its finally block: the client, if one was made,
\* is disconnected, and the event loop ends with the tasks still on it.
Stopped(r) == [r EXCEPT !.pc = "stopped", !.connected = FALSE, !.monitoring = FALSE]

\* The new messages that may arrive while run() is starting up: a reply, a
\* text the classifier scores above the high threshold, and that text sent
\* by a bot.
StartupMessages ==
    {m \in Messages : /\ ~m.current_image
                      /\ \/ m.reply_to_own /\ m.text = TextBelTempo
                         \/ ~m.reply_to_msg_id /\ m.text = TextWhatsapp}

\* Mutant of Initialize: a ValueError of load_config or validate_config is
\* ignored.
InitializeIgnoresErrors ==
    /\ run.pc = "new"
    /\ run' = [run EXCEPT !.pc = "connecting", !.message_handler = TRUE]
    /\ UNCHANGED <<vars, tw, signals, api, scored, typed, context, handling>>

\* initialize(): load_config, validate_config, then the components and
\* set_message_handler.  A ValueError leaves run() through `except
\* Exception` ("Fatal error") with no telegram_bot to disconnect.
Initialize ==
    /\ run.pc = "new"
    /\ run' = IF load_config_raises(run.env) \/ validate_config_raises(run.env)
              THEN Stopped(run)
              ELSE [run EXCEPT !.pc = "connecting", !.message_handler = TRUE]
    /\ UNCHANGED <<vars, tw, signals, api, scored, typed, context, handling>>

\* telegram_bot.start() connects, or raises and run() ends.
Connect(ok) ==
    /\ run.pc = "connecting"
    /\ run' = IF ok THEN [run EXCEPT !.pc = "selecting", !.connected = TRUE]
                    ELSE Stopped(run)
    /\ UNCHANGED <<vars, tw, signals, api, scored, typed, context, handling>>

\* select_group_interactive: a group is chosen, or run() returns.
SelectGroup(selected) ==
    /\ run.pc = "selecting"
    /\ run' = IF selected THEN [run EXCEPT !.pc = "start_monitoring"] ELSE Stopped(run)
    /\ UNCHANGED <<vars, tw, signals, api, scored, typed, context, handling>>

\* start_monitoring registers the new-message callback.
StartMonitoring ==
    /\ run.pc = "start_monitoring"
    /\ run' = [run EXCEPT !.pc = "greeting_context", !.monitoring = TRUE]
    /\ UNCHANGED <<vars, tw, signals, api, scored, typed, context, handling>>

\* generate_startup_greeting: get_startup_context(50) gives messages, gives
\* none, or raises; without messages the greeting is None.
FetchStartupContext(found) ==
    /\ run.pc = "greeting_context"
    /\ run' = IF found = "messages" THEN [run EXCEPT !.pc = "greeting_request"]
                                    ELSE [run EXCEPT !.pc = "running"]
    /\ UNCHANGED <<vars, tw, signals, api, scored, typed, context, handling>>

\* Mutant of GreetingReturns: the greeting is not tested.
GreetingReturnsUntested(greeting) ==
    /\ run.pc = "greeting_request"
    /\ run' = [run EXCEPT !.pc = "greeting_typing", !.greeting = greeting]
    /\ signals' = start_typing(TRUE, signals)
    /\ UNCHANGED <<vars, tw, api, scored, typed, context, handling>>

\* process_startup_message returns; `if startup_greeting:` either calls
\* start_typing and sleeps for the typing time, or goes on to the loop.
GreetingReturns(greeting) ==
    /\ run.pc = "greeting_request"
    /\ IF Truthy(greeting)
       THEN /\ run' = [run EXCEPT !.pc = "greeting_typing", !.greeting = greeting]
            /\ signals' = start_typing(TRUE, signals)
       ELSE /\ run' = [run EXCEPT !.pc = "running", !.greeting = greeting]
            /\ UNCHANGED signals
    /\ UNCHANGED <<vars, tw, api, scored, typed, context, handling>>

\* Mutant of SendGreeting: the greeting is recorded in the rate window.
SendGreetingRecords(ok) ==
    /\ run.pc = "greeting_typing"
    /\ IF ok
       THEN /\ run' = [run EXCEPT !.pc = "running", !.greeting_sends = @ + 1]
            /\ chat' = chat + 1
            /\ message_times' = record_message(message_times, now)
            /\ UNCHANGED cycles
       ELSE /\ run' = Stopped([run EXCEPT !.greeting_sends = @ + 1])
            /\ cycles' = EmptyBag
            /\ UNCHANGED <<chat, message_times>>
    /\ UNCHANGED <<now, log, tw, signals, api, scored, typed, context, handling>>

\* The typing sleep is over; send_message(startup_greeting) delivers, or
\* raises and run() ends through `except Exception`.
SendGreeting(ok) ==
    /\ run.pc = "greeting_typing"
    /\ IF ok
       THEN /\ run' = [run EXCEPT !.pc = "running", !.greeting_sends = @ + 1]
            /\ chat' = chat + 1
            /\ UNCHANGED cycles
       ELSE /\ run' = Stopped([run EXCEPT !.greeting_sends = @ + 1])
            /\ cycles' = EmptyBag
            /\ UNCHANGED chat
    /\ UNCHANGED <<now, message_times, log, tw, signals, api, scored, typed, context, handling>>

\* stop() from the signal handler ends the keep-alive loop.
Shutdown ==
    /\ run.pc = "running"
    /\ run' = Stopped(run)
    /\ cycles' = EmptyBag
    /\ UNCHANGED <<now, message_times, chat, log, tw, signals, api, scored, typed, context, handling>>

StartupInit ==
    /\ now = 0
    /\ message_times = <<>>
    /\ cycles = EmptyBag
    /\ chat = 0
    /\ log = LogLine("start")
    /\ tw = NoTyping
    /\ signals = <<>>
    /\ run \in {NotStarted(env) : env \in Envs}
    /\ api = NoCall
    /\ scored = NoScore
    /\ typed = NoTyped
    /\ context = NoContext
    /\ handling = NoHandling

StartupNext ==
    \/ Initialize
    \/ \E ok \in BOOLEAN : Connect(ok)
    \/ \E selected \in BOOLEAN : SelectGroup(selected)
    \/ StartMonitoring
    \/ \E found \in {"messages", "empty", "error"} : FetchStartupContext(found)
    \/ \E greeting \in Responses : GreetingReturns(greeting)
    \/ \E ok \in BOOLEAN : SendGreeting(ok)
    \/ Shutdown
    \/ \E m \in StartupMessages :
          /\ run.monitoring
          /\ UNCHANGED beyond_handler
          /\ Deliver(m, NoDraw, NoDraw)
    \/ FetchFails
    \/ \E pc \in {"THINKING_DELAY", "TYPING"} : UNCHANGED beyond_handler /\ Elapse(pc)
    \/ UNCHANGED beyond_handler /\ StartGeneration
    \/ \E response \in Responses : UNCHANGED beyond_handler /\ GenerationReturns(response)
    \/ \E ok \in BOOLEAN : UNCHANGED beyond_handler /\ Send(ok)
    \/ UNCHANGED beyond_handler /\ run.pc # "new" /\ Tick

StartupSpec == StartupInit /\ [][StartupNext]_all_vars

\* ------------------------------------------------- classifier over texts
\* The tech keywords a composed text may use.
MaxTechWords == 3

\* Pieces that each carry one feature of calculate_address_probability: a
\* question starter (first, so that the text starts with it), tech
\* keywords, a help phrase, a question mark, a group address and a
\* confusion word.
Fragments ==
    << question_starters[1] >> \o SubSeq(tech_keywords, 1, MaxTechWords)
    \o << help_phrases[1], <<"?">>, group_address[1], confusion_words[1] >>

\* The text made of the chosen fragments, each followed by a space.
RECURSIVE Compose(_, _)
Compose(chosen, k) ==
    IF k > Len(Fragments) THEN <<>>
    ELSE (IF chosen[k] THEN Fragments[k] \o <<" ">> ELSE <<>>) \o Compose(chosen, k + 1)

\* Every combination of the fragments (the empty text among them), and a
\* message without text.
ComposedTexts ==
    {Compose(chosen, 1) : chosen \in [1..Len(Fragments) -> BOOLEAN]} \cup {NoneText}

composed_probability ==
    [t \in ComposedTexts |-> calculate_address_probability(message_text_of(t))]

\* calculate_address_probability is called on a text.
Classify(t) ==
    /\ scored' = [text |-> t, score |-> composed_probability[t]]
    /\ UNCHANGED <<vars, tw, signals, run, api, typed, context, handling>>

ClassifierInit ==
    /\ now = 0
    /\ message_times = <<>>
    /\ cycles = EmptyBag
    /\ chat = 0
    /\ log = LogLine("start")
    /\ tw = NoTyping
    /\ signals = <<>>
    /\ run = Monitoring
    /\ api = NoCall
    /\ scored = NoScore
    /\ typed = NoTyped
    /\ context = NoContext
    /\ handling = NoHandling

ClassifierNext == \E t \in ComposedTexts : Classify(t)

ClassifierSpec == ClassifierInit /\ [][ClassifierNext]_all_vars

\* ------------------------------------------------------------ typing time
\* The texts handed to calculate_boomer_typing_time hold up to MaxTypedTech
\* tech words and up to MaxPunctuation punctuation marks, then padding.
MaxTypedTech == 2
MaxPunctuation == 2
\* The longest padding, long enough for the upper clamp.
MaxPad == 720
PadLengths == {0, 1, 19, 20, 100, MaxPad}

\* tech_words of calculate_boomer_typing_time.
tech_words ==
    << <<"a","p","p">>,
       <<"w","i","f","i">>,
       <<"i","n","t","e","r","n","e","t">>,
       <<"c","o","m","p","u","t","e","r">>,
       <<"t","e","l","e","f","o","n","o">>,
       <<"w","h","a","t","s","a","p","p">>,
       <<"t","e","l","e","g","r","a","m">>,
       <<"p","a","s","s","w","o","r","d">>,
       <<"e","m","a","i","l">>,
       <<"f","o","t","o">>,
       <<"v","i","d","e","o">>,
       <<"l","i","n","k">> >>

\* '.,!?;:'
punctuation_chars == {".", ",", "!", "?", ";", ":"}
PunctuationSamples == <<"!", ",", "?", ".", ";", ":">>

\* words tech words (the first in capitals), marks punctuation marks and pad
\* letters, in this order.
TypedText(words, marks, pad) ==
    LET RECURSIVE Words(_)
        Words(k) == IF k > words THEN <<>>
                    ELSE (IF k = 1 THEN <<"A","P","P">> ELSE tech_words[k])
                         \o <<" ">> \o Words(k + 1)
    IN Words(1) \o [i \in 1..marks |-> PunctuationSamples[i]] \o [i \in 1..pad |-> "z"]

TypedTexts ==
    {TypedText(words, marks, pad) :
        words \in 0..MaxTypedTech, marks \in 0..MaxPunctuation, pad \in PadLengths}

\* What the random calls return: random.uniform(1.0, 3.0), (2.0, 5.0) and
\* (0.5, 1.5) in quarters of a second, random.random() in hundredths, and
\* random.uniform(3.0, 8.0), in quarters of a second, when it is called.
TypingDraws ==
    [pause : {4, 12}, confusion : {8, 20}, punctuation : {2, 6},
     coin : {10}, mistake : {NoDraw}]
    \cup [pause : {4, 12}, confusion : {8, 20}, punctuation : {2, 6},
          coin : {5}, mistake : {32}]

Max(a, b) == IF a > b THEN a ELSE b

\* len(message), the tech words found in message.lower() and the
\* punctuation marks of each text, computed once.
typing_counts ==
    [message \in TypedTexts |->
        [char_count |-> Len(message),
         tech_mentions |-> CountIn(tech_words, lower(message)),
         punctuation_count |->
             Cardinality({i \in 1..Len(message) : message[i] \in punctuation_chars})]]

\* Mutant of calculate_boomer_typing_time: the pauses are counted with
\* char_count % 20.
calculate_boomer_typing_time_modulo(message, draws) ==
    IF message = <<>> THEN 4
    ELSE LET counts == typing_counts[message]
             typing_time == counts.char_count
             thinking_pauses == Min(counts.char_count % 20, 5) * draws.pause
             confusion_time == counts.tech_mentions * draws.confusion
             punctuation_time == counts.punctuation_count * draws.punctuation
             mistake_time == IF draws.coin < 10 THEN draws.mistake ELSE 0
         IN Min(720, Max(8, typing_time + thinking_pauses + confusion_time
                            + punctuation_time + mistake_time))

\* TelegramClaudeBot.calculate_boomer_typing_time, in quarters of a second:
\* char_count / 4.0 seconds is char_count quarters, 2.0 is 8, 180.0 is 720
\* and the 1.0 returned for an empty message is 4.
calculate_boomer_typing_time(message, draws) ==
    IF message = <<>> THEN 4
    ELSE LET counts == typing_counts[message]
             typing_time == counts.char_count
             thinking_pauses == Min(counts.char_count \div 20, 5) * draws.pause
             confusion_time == counts.tech_mentions * draws.confusion
             punctuation_time == counts.punctuation_count * draws.punctuation
             mistake_time == IF draws.coin < 10 THEN draws.mistake ELSE 0
         IN Min(720, Max(8, typing_time + thinking_pauses + confusion_time
                            + punctuation_time + mistake_time))

\* calculate_boomer_typing_time is called on a text.
TypeTime(message, draws) ==
    /\ typed' = [called |-> TRUE, message |-> message, draws |-> draws,
                 total_time |-> calculate_boomer_typing_time(message, draws)]
    /\ UNCHANGED <<vars, tw, signals, run, api, scored, context, handling>>

TypingTimeInit ==
    /\ now = 0
    /\ message_times = <<>>
    /\ cycles = EmptyBag
    /\ chat = 0
    /\ log = LogLine("start")
    /\ tw = NoTyping
    /\ signals = <<>>
    /\ run = Monitoring
    /\ api = NoCall
    /\ scored = NoScore
    /\ typed = NoTyped
    /\ context = NoContext
    /\ handling = NoHandling

TypingTimeNext == \E message \in TypedTexts : \E draws \in TypingDraws : TypeTime(message, draws)

TypingTimeSpec == TypingTimeInit /\ [][TypingTimeNext]_all_vars

\* ---------------------------------------------------------------- context
\* Messages the group may hold when an event arrives.
MaxHistory == 22
\* limit: int = 20 of get_message_context.
DefaultLimit == 20
\* Values of CONTEXT_MESSAGES a valid configuration may carry.
ContextLengths == {1, 5, DefaultLimit, DefaultLimit + 1}

Reverse(seq) == [i \in 1..Len(seq) |-> seq[Len(seq) + 1 - i]]

\* How client.get_messages(ids=message.reply_to_msg_id) ends.
Fetches == {"found", "nothing", "error"}

\* TelegramBot.get_message_context on a group of history messages, numbered
\* from the oldest: iter_messages yields the newest limit of them, newest
\* first; the message reply_at (if any is) is a reply and fetch says how the
\* request for its original ends; an error is logged and the entry is kept
\* without 'replied_to'.  The list is reversed at the end.
get_message_context(history, limit, reply_at, fetch) ==
    LET msg_data(id) ==
            [id |-> id, reply_to_msg_id |-> id = reply_at,
             replied_to |-> id = reply_at /\ fetch = "found"]
        messages == [i \in 1..Min(history, limit) |-> msg_data(history + 1 - i)]
        warnings == IF reply_at \in {messages[i].id : i \in 1..Len(messages)}
                       /\ fetch = "error"
                    THEN 1 ELSE 0
    IN [messages |-> Reverse(messages), warnings |-> warnings]

\* The new-message callback builds the context of an event:
\* context = await self.get_message_context(event.message).
FetchContext(history, reply_at, fetch) ==
    /\ run.monitoring
    /\ LET built == get_message_context(history, DefaultLimit, reply_at, fetch)
       IN context' = [called |-> TRUE, history |-> history,
                      messages |-> built.messages, warnings |-> built.warnings]
    /\ UNCHANGED <<vars, tw, signals, run, api, scored, typed>>

\* The bot is monitoring under a valid configuration.
ContextInit ==
    /\ now = 0
    /\ message_times = <<>>
    /\ cycles = EmptyBag
    /\ chat = 0
    /\ log = LogLine("start")
    /\ tw = NoTyping
    /\ signals = <<>>
    /\ run \in {[Monitoring EXCEPT !.env.CONTEXT_MESSAGES = c] : c \in ContextLengths}
    /\ api = NoCall
    /\ scored = NoScore
    /\ typed = NoTyped
    /\ context = NoContext
    /\ handling = NoHandling

ContextNext ==
    \E history \in 0..MaxHistory :
        \E reply_at \in {0, history} : \E fetch \in Fetches :
            UNCHANGED handling /\ FetchContext(history, reply_at, fetch)

ContextSpec == ContextInit /\ [][ContextNext]_all_vars

\* --------------------------------------------------------------- responder
Whitespace == {" ", "\n", "\t"}

\* str.strip()
RECURSIVE lstrip(_)
lstrip(s) == IF s # <<>> /\ Head(s) \in Whitespace THEN lstrip(Tail(s)) ELSE s

RECURSIVE rstrip(_)
rstrip(s) ==
    IF s # <<>> /\ s[Len(s)] \in Whitespace THEN rstrip(SubSeq(s, 1, Len(s) - 1)) ELSE s

strip(s) == rstrip(lstrip(s))

\* What the completion endpoint can answer with: a body that is not JSON, a
\* body without "choices", with an empty list of choices, with a choice
\* that has no message, with a null content, or with a content text.
Contents == {<<>>, <<" ">>, <<" ", "o", "k", "\n">>, <<"v", "a", " ", "b", "e", "n", "e">>}

Bodies ==
    [kind : {"not_json", "no_choices", "empty_choices", "no_message", "null_content"},
     content : {<<>>}]
    \cup [kind : {"content"}, content : Contents]

\* One call of the responder with everything it depends on: whether the
\* prompt can be formatted, the credential in the environment, whether the
\* message carries an image, and how the request ends.
Calls ==
    [operation : {"process_message", "process_startup_message"},
     prompt_ok : BOOLEAN,
     OPENROUTER_API_KEY : {<<>>, <<"s", "k">>},
     image : BOOLEAN,
     transport : {"response", "Timeout", "ConnectionError"},
     status_code : {200, 500},
     body : Bodies]

\* A call ends by returning a value or by raising; requests counts the
\* requests it made.
Return(value, requests) == [raised |-> "none", value |-> value, requests |-> requests]
Raise(exception, requests) == [raised |-> exception, value |-> NoneText, requests |-> requests]

\* The try body shared by get_claude_response and get_startup_response: the
\* credential, one requests.post with a timeout, the status, the parse of
\* the body, the stripped content.
completion(call) ==
    IF call.OPENROUTER_API_KEY = <<>> THEN Return(NoneText, 0)
    ELSE IF call.transport # "response" THEN Raise(call.transport, 1)
    ELSE IF call.status_code # 200 THEN Return(NoneText, 1)
    ELSE IF call.body.kind = "not_json" THEN Raise("JSONDecodeError", 1)
    ELSE IF call.body.kind \in {"no_choices", "empty_choices"} THEN Return(NoneText, 1)
    ELSE IF call.body.kind = "no_message" THEN Raise("KeyError", 1)
    ELSE IF call.body.kind = "null_content" THEN Raise("AttributeError", 1)
    ELSE LET message_content == strip(call.body.content)
         IN IF message_content = <<>> THEN Return(NoneText, 1)
            ELSE Return(message_content, 1)

\* Mutant of except_Exception: only a timeout is caught.
except_Timeout_only(outcome) ==
    IF outcome.raised = "Timeout" THEN Return(NoneText, outcome.requests) ELSE outcome

\* Mutant of except_Exception: the handler of the exception asks once more.
except_Exception_retry(outcome) ==
    IF outcome.raised # "none" THEN Return(NoneText, outcome.requests + 1) ELSE outcome

\* try: ... except Exception: log, return None.  (The except clauses for
\* Timeout and RequestException of get_claude_response do the same.)
except_Exception(outcome) ==
    IF outcome.raised # "none" THEN Return(NoneText, outcome.requests) ELSE outcome

get_claude_response(call) == except_Exception(completion(call))

get_startup_response(call) == except_Exception(completion(call))

\* format_context_for_claude / format_startup_context, then the request.
process_message(call) ==
    except_Exception(IF ~call.prompt_ok THEN Raise("KeyError", 0)
                     ELSE get_claude_response(call))

process_startup_message(call) ==
    except_Exception(IF ~call.prompt_ok THEN Raise("KeyError", 0)
                     ELSE get_startup_response(call))

\* The responder is called.
Respond(call) ==
    /\ api' = [operation |-> call.operation, call |-> call,
               outcome |-> IF call.operation = "process_message"
                           THEN process_message(call)
                           ELSE process_startup_message(call)]
    /\ UNCHANGED <<vars, tw, signals, run, scored, typed, context, handling>>

ResponderInit ==
    /\ now = 0
    /\ message_times = <<>>
    /\ cycles = EmptyBag
    /\ chat = 0
    /\ log = LogLine("start")
    /\ tw = NoTyping
    /\ signals = <<>>
    /\ run = Monitoring
    /\ api = NoCall
    /\ scored = NoScore
    /\ typed = NoTyped
    /\ context = NoContext
    /\ handling = NoHandling

ResponderNext == \E call \in Calls : Respond(call)

ResponderSpec == ResponderInit /\ [][ResponderNext]_all_vars

\* ------------------------------------------------- type_while_processing
\* The typing signals the keep_typing loop of one invocation may emit.
MaxSignals == 2

TypingSignals == Len(SelectSeq(signals, LAMBDA s : s = "typing"))

\* stop_typing: nothing without a group, else one 'cancel typing' request.
stop_typing(group, sigs) == IF ~group THEN sigs ELSE Append(sigs, "cancel")

\* Mutant of Finally: the cleanup is not in a finally block, it runs only
\* after the awaited work returned.
FinallyOnReturnOnly(outcome) ==
    IF outcome # "returned"
    THEN [tw |-> [tw EXCEPT !.pc = outcome, !.outcome = outcome], signals |-> signals]
    ELSE IF tw.typing_task = "done"
    THEN [tw |-> [tw EXCEPT !.typing_active = FALSE, !.outcome = outcome,
                            !.pc = "await_stop"],
          signals |-> stop_typing(tw.selected_group, signals)]
    ELSE [tw |-> [tw EXCEPT !.typing_active = FALSE, !.outcome = outcome,
                            !.pc = "await_typing_task", !.cancel_requested = TRUE],
          signals |-> signals]

\* Mutant of Finally: the loop is neither flagged nor cancelled nor awaited
\* before stop_typing.
FinallyLeavesLoop(outcome) ==
    [tw |-> [tw EXCEPT !.outcome = outcome, !.pc = "await_stop"],
     signals |-> stop_typing(tw.selected_group, signals)]

\* Mutant of Finally: the loop is awaited without being flagged or
\* cancelled.
FinallyAwaitsOnly(outcome) ==
    [tw |-> [tw EXCEPT !.outcome = outcome, !.pc = "await_typing_task"],
     signals |-> signals]

\* The finally block up to its first suspension, entered with the way the
\* awaited work ended: typing_active = False, typing_task.cancel(), await
\* typing_task.  A loop that already ended is not cancelled and awaiting it
\* returns at once, so stop_typing sends its request in the same step.
Finally(outcome) ==
    IF tw.typing_task = "done"
    THEN [tw |-> [tw EXCEPT !.typing_active = FALSE, !.outcome = outcome,
                            !.pc = "await_stop"],
          signals |-> stop_typing(tw.selected_group, signals)]
    ELSE [tw |-> [tw EXCEPT !.typing_active = FALSE, !.outcome = outcome,
                            !.pc = "await_typing_task", !.cancel_requested = TRUE],
          signals |-> signals]

\* type_while_processing is called and runs to its first await: without a
\* group it awaits the work alone; with one it sets the flag, creates the
\* keep_typing task and awaits the work.
EnterTyping ==
    /\ tw.pc = "start"
    /\ tw' = IF ~tw.selected_group
             THEN [tw EXCEPT !.pc = "await_plain"]
             ELSE [tw EXCEPT !.pc = "await_work", !.typing_active = TRUE,
                             !.typing_task = "created"]
    /\ UNCHANGED signals

\* The awaited work returns a value or raises.
WorkEnds(outcome) ==
    \/ /\ tw.pc = "await_plain"
       /\ tw' = [tw EXCEPT !.pc = outcome, !.outcome = outcome]
       /\ UNCHANGED signals
    \/ /\ tw.pc = "await_work"
       /\ tw' = Finally(outcome).tw
       /\ signals' = Finally(outcome).signals

\* The task running type_while_processing is cancelled while it is
\* suspended.  CancelledError is raised at the await: at the work it enters
\* the finally block; at `await typing_task` it is caught by the except
\* clause meant for the loop's cancellation; at stop_typing it is not an
\* Exception, so it propagates.
CancelCaller ==
    \/ /\ tw.pc = "await_plain"
       /\ tw' = [tw EXCEPT !.pc = "cancelled", !.outcome = "cancelled"]
       /\ UNCHANGED signals
    \/ /\ tw.pc = "await_work"
       /\ tw' = Finally("cancelled").tw
       /\ signals' = Finally("cancelled").signals
    \/ /\ tw.pc = "await_typing_task"
       /\ tw' = [tw EXCEPT !.swallowed = TRUE]
       /\ UNCHANGED signals
    \/ /\ tw.pc = "await_stop"
       /\ tw' = [tw EXCEPT !.pc = "cancelled", !.outcome = "cancelled"]
       /\ UNCHANGED signals

\* keep_typing at the head of its loop (first run, or its sleep is over):
\* while typing_active, send one 'typing' request.
KeepTyping ==
    /\ tw.typing_task \in {"created", "sleeping"}
    /\ ~tw.cancel_requested
    /\ IF tw.typing_active
       THEN /\ TypingSignals < MaxSignals
            /\ signals' = Append(signals, "typing")
            /\ tw' = [tw EXCEPT !.typing_task = "requesting"]
       ELSE /\ tw' = [tw EXCEPT !.typing_task = "done"]
            /\ UNCHANGED signals

\* The 'typing' request of the loop returns: the loop sleeps, or on an
\* exception logs a warning and breaks.
SetTypingReturns(ok) ==
    /\ tw.typing_task = "requesting"
    /\ ~tw.cancel_requested
    /\ tw' = [tw EXCEPT !.typing_task = IF ok THEN "sleeping" ELSE "done"]
    /\ UNCHANGED signals

\* The cancelled loop is resumed with CancelledError.  A task that never ran
\* ends cancelled.  At an await inside the try, `except Exception` lets it
\* through where CancelledError is a BaseException (Python 3.8 and later)
\* and catches it, breaking the loop, where it is an Exception (3.7).
TypingTaskCancelled(caught) ==
    /\ tw.cancel_requested
    /\ tw.typing_task \in {"created", "requesting", "sleeping"}
    /\ tw' = [tw EXCEPT !.typing_task =
                 IF caught /\ tw.typing_task # "created" THEN "done" ELSE "cancelled"]
    /\ UNCHANGED signals

\* `await typing_task` ends (CancelledError from the loop is passed over);
\* stop_typing sends its request.
AwaitTypingTaskReturns ==
    /\ tw.pc = "await_typing_task"
    /\ tw.typing_task \in {"cancelled", "done"}
    /\ tw' = [tw EXCEPT !.pc = "await_stop"]
    /\ signals' = stop_typing(tw.selected_group, signals)

\* The request of stop_typing returns or raises an Exception, which
\* stop_typing logs and drops; type_while_processing leaves the way the
\* awaited work ended.
StopTypingReturns(ok) ==
    /\ tw.pc = "await_stop"
    /\ tw' = [tw EXCEPT !.pc = tw.outcome]
    /\ UNCHANGED signals

TypingInit ==
    /\ now = 0
    /\ message_times = <<>>
    /\ cycles = EmptyBag
    /\ chat = 0
    /\ log = LogLine("start")
    /\ tw \in {[NoTyping EXCEPT !.pc = "start", !.selected_group = g] : g \in BOOLEAN}
    /\ signals = <<>>
    /\ run = Monitoring
    /\ api = NoCall
    /\ scored = NoScore
    /\ typed = NoTyped
    /\ context = NoContext
    /\ handling = NoHandling

TypingNext ==
    \/ EnterTyping /\ UNCHANGED <<vars, run, api, scored, typed, context, handling>>
    \/ /\ \E outcome \in {"returned", "raised"} : WorkEnds(outcome)
       /\ UNCHANGED <<vars, run, api, scored, typed, context, handling>>
    \/ CancelCaller /\ UNCHANGED <<vars, run, api, scored, typed, context, handling>>
    \/ KeepTyping /\ UNCHANGED <<vars, run, api, scored, typed, context, handling>>
    \/ /\ \E ok \in BOOLEAN : SetTypingReturns(ok)
       /\ UNCHANGED <<vars, run, api, scored, typed, context, handling>>
    \/ /\ \E caught \in BOOLEAN : TypingTaskCancelled(caught)
       /\ UNCHANGED <<vars, run, api, scored, typed, context, handling>>
    \/ AwaitTypingTaskReturns /\ UNCHANGED <<vars, run, api, scored, typed, context, handling>>
    \/ /\ \E ok \in BOOLEAN : StopTypingReturns(ok)
       /\ UNCHANGED <<vars, run, api, scored, typed, context, handling>>

TypingSpec == TypingInit /\ [][TypingNext]_all_vars

\* ------------------------------------------------------- one handling cycle
\* The group histories the callback may find.
CycleHistories == {1, MaxHistory}

\* The callback fetches the context of the event; a replied-to message that
\* cannot be fetched leaves a warning.  The event is one the gate and the
\* rate check let through, so handle_new_message goes to its thinking delay.
CallbackFetches(history, reply_at, fetch) ==
    /\ handling.pc = "FETCHING"
    /\ FetchContext(history, reply_at, fetch)
    /\ handling' = [handling EXCEPT
                       !.pc = "THINKING_DELAY",
                       !.failures = IF context'.warnings > 0
                                    THEN @ \cup {"replied_to"} ELSE @]

\* The thinking delay is over: type_while_processing is called on
\* process_ai_response().
ThinkingElapses ==
    /\ handling.pc = "THINKING_DELAY"
    /\ handling' = [handling EXCEPT !.pc = "GENERATING"]
    /\ tw' = [NoTyping EXCEPT !.pc = "start"]
    /\ UNCHANGED <<vars, signals, run, api, scored, typed, context>>

\* A step of type_while_processing inside the cycle; failed says which
\* request, if any, raised in it.
InGeneration(failed) ==
    /\ handling.pc = "GENERATING"
    /\ handling' = [handling EXCEPT !.failures = @ \cup failed]
    /\ UNCHANGED <<vars, run, api, scored, typed, context>>

\* type_while_processing has returned what process_message returned.
\* `if response:` then the typing time is computed and start_typing sends
\* its request; else "No response from AI" and the cycle is over.
HandlerResumes(response) ==
    /\ handling.pc = "GENERATING"
    /\ tw.pc = "returned"
    /\ IF Truthy(response)
       THEN /\ handling' = [handling EXCEPT !.pc = "START_TYPING", !.response = response]
            /\ signals' = start_typing(tw.selected_group, signals)
       ELSE /\ handling' = [handling EXCEPT !.pc = "noop", !.response = response]
            /\ UNCHANGED signals
    /\ tw' = NoTyping
    /\ UNCHANGED <<vars, run, api, scored, typed, context>>

\* Mutant of StartTypingReturns: the exception of the request is not caught
\* in start_typing and reaches the except clause of handle_new_message.
StartTypingRaises(ok) ==
    /\ handling.pc = "START_TYPING"
    /\ handling' = [handling EXCEPT
                       !.pc = IF ok THEN "TYPING" ELSE "error",
                       !.failures = IF ok THEN @ ELSE @ \cup {"start_typing"}]
    /\ UNCHANGED <<vars, tw, signals, run, api, scored, typed, context>>

\* The request of start_typing returns, or raises an Exception that
\* start_typing logs and drops; the handler sleeps for the typing time.
StartTypingReturns(ok) ==
    /\ handling.pc = "START_TYPING"
    /\ handling' = [handling EXCEPT
                       !.pc = "TYPING",
                       !.failures = IF ok THEN @ ELSE @ \cup {"start_typing"}]
    /\ UNCHANGED <<vars, tw, signals, run, api, scored, typed, context>>

\* The typing time is over: send_message sends the response.
TypingElapses ==
    /\ handling.pc = "TYPING"
    /\ handling' = [handling EXCEPT !.pc = "SENDING"]
    /\ UNCHANGED <<vars, tw, signals, run, api, scored, typed, context>>

\* send_message returns and the send is recorded, or it raises and the
\* except clause of handle_new_message logs the error.
SendMessageReturns(ok) ==
    /\ handling.pc = "SENDING"
    /\ IF ok
       THEN /\ chat' = chat + 1
            /\ message_times' = record_message(message_times, now)
            /\ handling' = [handling EXCEPT !.pc = "recorded"]
       ELSE /\ handling' = [handling EXCEPT !.pc = "error", !.failures = @ \cup {"send"}]
            /\ UNCHANGED <<chat, message_times>>
    /\ UNCHANGED <<now, cycles, log, tw, signals, run, api, scored, typed, context>>

\* An event of the selected group has reached the callback.
CycleInit ==
    /\ now = 0
    /\ message_times = <<>>
    /\ cycles = EmptyBag
    /\ chat = 0
    /\ log = LogLine("start")
    /\ tw = NoTyping
    /\ signals = <<>>
    /\ run = Monitoring
    /\ api = NoCall
    /\ scored = NoScore
    /\ typed = NoTyped
    /\ context = NoContext
    /\ handling = [NoHandling EXCEPT !.pc = "FETCHING"]

CycleNext ==
    \/ \E history \in CycleHistories : \E reply_at \in {0, history} :
          \E fetch \in Fetches : CallbackFetches(history, reply_at, fetch)
    \/ ThinkingElapses
    \/ InGeneration({}) /\ EnterTyping
    \/ InGeneration({}) /\ WorkEnds("returned")
    \/ InGeneration({}) /\ KeepTyping
    \/ \E ok \in BOOLEAN :
          InGeneration(IF ok THEN {} ELSE {"keep_typing"}) /\ SetTypingReturns(ok)
    \/ \E caught \in BOOLEAN : InGeneration({}) /\ TypingTaskCancelled(caught)
    \/ InGeneration({}) /\ AwaitTypingTaskReturns
    \/ \E ok \in BOOLEAN :
          InGeneration(IF ok THEN {} ELSE {"stop_typing"}) /\ StopTypingReturns(ok)
    \/ \E response \in Responses : HandlerResumes(response)
    \/ \E ok \in BOOLEAN : StartTypingReturns(ok)
    \/ TypingElapses
    \/ \E ok \in BOOLEAN : SendMessageReturns(ok)

CycleSpec == CycleInit /\ [][CycleNext]_all_vars

\* What the event loop and the collaborators guarantee for a cycle: a
\* coroutine that is ready to run is run (the callback's fetch returns,
\* type_while_processing is entered, the keep_typing task is resumed, also
\* with its cancellation, an awaited task that ended resumes its awaiter,
\* the handler resumes), each sleep elapses, and each request (completion,
\* 'typing', 'cancel typing', send) returns or raises.
CycleFairness ==
    /\ WF_all_vars(\E history \in CycleHistories : \E reply_at \in {0, history} :
                       \E fetch \in Fetches : CallbackFetches(history, reply_at, fetch))
    /\ WF_all_vars(ThinkingElapses)
    /\ WF_all_vars(InGeneration({}) /\ EnterTyping)
    /\ WF_all_vars(InGeneration({}) /\ WorkEnds("returned"))
    /\ WF_all_vars(\E ok \in BOOLEAN :
                       InGeneration(IF ok THEN {} ELSE {"keep_typing"}) /\ SetTypingReturns(ok))
    /\ WF_all_vars(\E caught \in BOOLEAN : InGeneration({}) /\ TypingTaskCancelled(caught))
    /\ WF_all_vars(InGeneration({}) /\ AwaitTypingTaskReturns)
    /\ WF_all_vars(\E ok \in BOOLEAN :
                       InGeneration(IF ok THEN {} ELSE {"stop_typing"}) /\ StopTypingReturns(ok))
    /\ WF_all_vars(\E response \in Responses : HandlerResumes(response))
    /\ WF_all_vars(\E ok \in BOOLEAN : StartTypingReturns(ok))
    /\ WF_all_vars(TypingElapses)
    /\ WF_all_vars(\E ok \in BOOLEAN : SendMessageReturns(ok))

\* One handling cycle on an event loop that runs what is ready, with
\* collaborators that answer.
CycleFairSpec == CycleSpec /\ CycleFairness

\* ---------------------------------------------------------------- claims
\* The lines the synchronous head of a cycle logs.
DeliverEvents == {"skip_bot", "skip_gate", "skip_rate", "thinking"}

\* The log holds the outcome of the head of a cycle for a message that was
\* not dropped by a sender filter.
Gated == log.event \in DeliverEvents /\ ~log.msg.bot

\* The message is a reply, or its lower-cased text contains a mention.
DirectTrigger(m) ==
    \/ m.reply_to_msg_id
    \/ /\ m.text # NoneText
       /\ \/ contains(<<"@","r","u","p","h","y">>, lower(m.text))
          \/ contains(<<"r","i","c","c","a","r","d","o">>, lower(m.text))

\* Number of retained timestamps that are at most window_seconds old at t.
RecentSends(times, t) ==
    Cardinality({i \in 1..Len(times) : t - times[i] <= window_seconds})

\* A cycle is suspended in its thinking delay.
Thinking ==
    \/ BagIn(Cycle("THINKING_DELAY", FALSE), cycles)
    \/ BagIn(Cycle("THINKING_DELAY", TRUE), cycles)

\* C1: a message of a non-bot sender that carries a direct trigger (a reply,
\* or a mention of @ruphy or riccardo) is never skipped, whatever the rate
\* window holds: the handler goes on to the thinking delay.
C1_DirectTriggerAlwaysResponds ==
    (Gated /\ DirectTrigger(log.msg)) => (log.event = "thinking" /\ Thinking)

\* C1 witness: a mention without reply was let through while the window was full.
C1_Witness ==
    /\ Gated
    /\ DirectTrigger(log.msg)
    /\ ~log.msg.reply_to_msg_id
    /\ log.event = "thinking"
    /\ RecentSends(message_times, now) >= max_messages

\* C2: a message of a non-bot sender with an attached image is never skipped,
\* whatever its score and whatever the rate window holds.
C2_ImageAlwaysResponds ==
    (Gated /\ log.msg.current_image) => log.event = "thinking"

\* The step is the head of a cycle that made the rate check.
RateCheckStep ==
    /\ log'.event \in DeliverEvents
    /\ log'.rate_checked
    /\ Deliver(log'.msg, log'.coin, log'.fallback)

\* C3: with max_messages sends recorded within the last window_seconds,
\* every call of can_send_message answers false; it can answer true again
\* only once the oldest of them is more than window_seconds old.
C3_FullWindowBlocks ==
    [][(RateCheckStep /\ RecentSends(message_times, now) >= max_messages)
          => (~log'.can_send /\ log'.event = "skip_rate")]_vars

\* C3 witness: a rate check has answered false on a full window.
C3_Witness ==
    /\ log.event = "skip_rate"
    /\ log.rate_checked
    /\ ~log.can_send
    /\ RecentSends(message_times, now) >= max_messages

\* C4: when fewer than max_messages recorded timestamps are at most
\* window_seconds old, can_send_message answers true, also after it was
\* blocked.
C4_LimiterRecovers ==
    [][(RateCheckStep /\ RecentSends(message_times, now) < max_messages)
          => (log'.can_send /\ log'.event = "thinking")]_vars

\* C4 witness: max_messages replies were sent, their timestamps have left
\* the window and were pruned, and the rate check answered true.
C4_Witness ==
    /\ log.event = "thinking"
    /\ log.rate_checked
    /\ log.can_send
    /\ chat >= max_messages
    /\ message_times = <<>>

\* The message carries neither a direct trigger nor an image.
NoTrigger(m) == ~DirectTrigger(m) /\ ~m.current_image

\* The classifier's score of the logged message, in hundredths.
Score == address_probability[log.msg.text]

\* C5: for a message without trigger whose score s has 0.2 < s <= 0.4 the
\* gate is decided by the score-weighted coin alone: the fallback coin is
\* not consulted and a failed coin means the message is skipped.
C5_MediumScoreFirstMatchWins ==
    (Gated /\ NoTrigger(log.msg) /\ Score > 20 /\ Score <= 40)
        => /\ log.coin # NoDraw
           /\ log.fallback = NoDraw
           /\ (log.coin >= Score => log.event = "skip_gate")

\* C6: for a message without trigger whose score is above 0.4 the gate
\* answers yes without any random draw, and the message is answered exactly
\* when the rate check answers true.
C6_HighScoreSubjectToRateOnly ==
    (Gated /\ NoTrigger(log.msg) /\ Score > 40)
        => /\ log.coin = NoDraw
           /\ log.fallback = NoDraw
           /\ log.rate_checked
           /\ log.event \in {"thinking", "skip_rate"}
           /\ (log.event = "thinking" <=> log.can_send)

\* C6 witness: a message scoring just above 0.4 passed the gate and was
\* refused by the rate check.
C6_Witness ==
    /\ Gated
    /\ NoTrigger(log.msg)
    /\ Score > 40
    /\ Score <= 45
    /\ log.event = "skip_rate"

\* C7: for a message without trigger whose score is at most 0.2 (a null
\* text scores 0) only the fallback coin is drawn, and the message passes
\* the gate exactly when that draw is below 0.05.
C7_LowScoreFallbackOnly ==
    (Gated /\ NoTrigger(log.msg) /\ Score <= 20)
        => /\ log.coin = NoDraw
           /\ log.fallback # NoDraw
           /\ (log.fallback >= 5 <=> log.event = "skip_gate")

\* C7 witness: a message with no text was skipped on a fallback draw of
\* exactly 0.05.
C7_Witness ==
    /\ Gated
    /\ NoTrigger(log.msg)
    /\ log.msg.text = NoneText
    /\ log.fallback = 5
    /\ log.event = "skip_gate"

\* The step is the return of a generation that produced no text.
GenerationFailsStep ==
    \E response \in Responses : ~Truthy(response) /\ GenerationReturns(response)

\* C8: when generation fails, the step that learns it sends nothing to the
\* chat, appends nothing to the rate window and ends the cycle.
C8_FailedGenerationIsNoOp ==
    [][GenerationFailsStep
          => /\ chat' = chat
             /\ message_times' = message_times
             /\ log'.event = "no_response"
             /\ cycles' = cycles (-) One(Cycle("GENERATING", FALSE))]_vars

\* C8 witness: the only cycle ended on a failed generation with nothing sent
\* and nothing recorded.
C8_Witness ==
    /\ log.event = "no_response"
    /\ cycles = EmptyBag
    /\ chat = 0
    /\ message_times = <<>>

\* The steps of one cycle, in order: delay elapsed, generation started,
\* response obtained, typing delay elapsed.
Moves ==
    { <<Cycle("THINKING_DELAY", FALSE), Cycle("THINKING_DELAY", TRUE)>>,
      <<Cycle("THINKING_DELAY", TRUE), Cycle("GENERATING", FALSE)>>,
      <<Cycle("GENERATING", FALSE), Cycle("TYPING", FALSE)>>,
      <<Cycle("TYPING", FALSE), Cycle("TYPING", TRUE)>> }

\* C9: a cycle goes through thinking delay, generation, typing delay, send
\* and rate record in this order, one stage at a time: generation starts
\* only from an elapsed thinking delay, the send happens only from an
\* elapsed typing delay, and the record comes with the send.
C9_StrictSequence ==
    [][/\ cycles' # cycles
          => \/ cycles' = cycles (+) One(Cycle("THINKING_DELAY", FALSE))
             \/ \E mv \in Moves :
                   /\ BagIn(mv[1], cycles)
                   /\ cycles' = (cycles (-) One(mv[1])) (+) One(mv[2])
                   /\ chat' = chat
                   /\ message_times' = message_times
             \/ /\ BagIn(Cycle("GENERATING", FALSE), cycles)
                /\ cycles' = cycles (-) One(Cycle("GENERATING", FALSE))
                /\ chat' = chat
                /\ message_times' = message_times
             \/ /\ BagIn(Cycle("TYPING", TRUE), cycles)
                /\ cycles' = cycles (-) One(Cycle("TYPING", TRUE))
       /\ chat' # chat
          => /\ BagIn(Cycle("TYPING", TRUE), cycles)
             /\ cycles' = cycles (-) One(Cycle("TYPING", TRUE))
             /\ chat' = chat + 1
             /\ message_times' = Append(message_times, now)]_vars

\* C9 witness: a reply went through every stage and was sent and recorded.
C9_Witness ==
    /\ log.event = "sent"
    /\ chat = 1
    /\ message_times = <<now>>

\* C10 as stated: message_times changes only in the step of a successful send.
C10_OnlyChangedAfterSend ==
    [][message_times' # message_times => chat' = chat + 1]_vars

\* C10 amended: message_times gains a timestamp only in the step of a
\* successful send; a step that sends nothing leaves it unchanged or, in the
\* rate check, drops from its front timestamps older than window_seconds;
\* a failed send leaves it unchanged.
C10_OnlyAppendedAfterSend ==
    [][/\ chat' = chat
          => \E k \in 0..Len(message_times) :
                /\ message_times' = SubSeq(message_times, k + 1, Len(message_times))
                /\ \A i \in 1..k : message_times[i] < now - window_seconds
                /\ k > 0 => (log'.event \in DeliverEvents /\ log'.rate_checked)
       /\ chat' # chat => message_times' = Append(message_times, now)
       /\ Send(FALSE) => message_times' = message_times]_vars

\* C10 witness: a rate check has pruned a recorded timestamp.
C10_Witness ==
    /\ log.event \in DeliverEvents
    /\ log.rate_checked
    /\ Len(message_times) < chat

\* ------------------------------------------- claims on the typing presence
CancelSignals == Len(SelectSeq(signals, LAMBDA s : s = "cancel"))

\* type_while_processing has returned or propagated.
TypingExited == tw.pc \in {"returned", "raised", "cancelled"}

\* C11: with a group selected, when type_while_processing has left (it
\* returned the work's value, propagated the work's exception, or was
\* cancelled), the keep_typing loop has ended and exactly one 'cancel typing'
\* signal was issued; before that, never more than one.
C11_TypingReleasedOnEveryExit ==
    tw.selected_group =>
        /\ CancelSignals <= 1
        /\ TypingExited =>
              /\ tw.typing_task \in {"cancelled", "done"}
              /\ ~tw.typing_active
              /\ CancelSignals = 1

\* The caller was cancelled while the work was in flight and the loop had
\* signalled; the call has propagated.
C11_Witness ==
    /\ tw.selected_group
    /\ tw.pc = "cancelled"
    /\ TypingSignals > 0
    /\ CancelSignals = 1

\* C12: the loop emits 'typing' signals only while the awaited work is in
\* flight: once the work has returned or failed no step adds a 'typing'
\* signal, and no 'typing' signal follows the 'cancel typing' signal.
C12_NoTypingAfterWork ==
    [][/\ tw.pc \notin {"start", "await_work"} =>
              SelectSeq(signals', LAMBDA s : s = "typing")
              = SelectSeq(signals, LAMBDA s : s = "typing")
       /\ \A i, j \in DOMAIN signals' :
              i < j /\ signals'[i] = "cancel" => signals'[j] # "typing"
      ]_typing_vars

\* The loop signalled twice while the work was in flight (one request
\* answered, the next still open), then the work ended and the 'cancel
\* typing' signal went out.
C12_Witness ==
    /\ tw.pc = "await_stop"
    /\ signals = <<"typing", "typing", "cancel">>

\* ------------------------------------------------ claims on the event flow
\* C13: at no point are two handling cycles in flight: a second event does
\* not enter handle_new_message while an earlier one is suspended in it.
C13_OneCycleAtATime == InFlight <= 1

\* A step in which an exception reached an except clause of the callback or
\* of handle_new_message.
HandlerErrorStep ==
    \/ FetchFails
    \/ UNCHANGED beyond_handler /\ Send(FALSE)

\* C14: an exception raised while one message is handled ends that cycle
\* only, as a skipped message: nothing is sent or recorded, the other
\* cycles are untouched, the callback stays registered and the next event
\* is still handled.
C14_ErrorEndsOneCycleOnly ==
    [][HandlerErrorStep =>
          /\ log'.event \in {"error", "callback_error"}
          /\ chat' = chat
          /\ message_times' = message_times
          /\ cycles' \sqsubseteq cycles
          /\ BagCardinality(cycles') >= BagCardinality(cycles) - 1
          /\ run'.monitoring
          /\ (ENABLED HandleEvent)'
      ]_all_vars

\* A send raised while another cycle was in flight, after an earlier
\* message had been answered.
C14_Witness ==
    /\ log.event = "error"
    /\ InFlight > 0
    /\ chat > 0

\* ------------------------------------------------ claims on the responder
\* The request of the call was answered with status 200 and a body whose
\* first choice holds a content that is not empty once stripped.
Succeeded(call) ==
    /\ call.prompt_ok
    /\ call.OPENROUTER_API_KEY # <<>>
    /\ call.transport = "response"
    /\ call.status_code = 200
    /\ call.body.kind = "content"
    /\ strip(call.body.content) # <<>>

\* C15: process_message and process_startup_message never raise; they
\* return None for a missing credential, a status other than 200, a timeout,
\* a connection error, missing or empty choices, an empty content and a
\* malformed body, and a non-empty text exactly when the call succeeded
\* with non-empty content.
C15_ResponderNeverRaises ==
    api.operation # "none" =>
        /\ api.outcome.raised = "none"
        /\ api.outcome.value # <<>>
        /\ api.outcome.value # NoneText <=> Succeeded(api.call)
        /\ Succeeded(api.call) => api.outcome.value = strip(api.call.body.content)

\* The startup greeting was asked for and the body of the answer was
\* malformed.
C15_Witness ==
    /\ api.operation = "process_startup_message"
    /\ api.call.prompt_ok
    /\ api.call.OPENROUTER_API_KEY # <<>>
    /\ api.call.transport = "response"
    /\ api.call.status_code = 200
    /\ api.call.body.kind = "no_message"
    /\ api.outcome = Return(NoneText, 1)

\* --------------------------------------------- claims on the rate window
\* C16 as stated: in every reachable state every retained timestamp lies
\* within [now - window_seconds, now].
C16_RetainedWithinWindow ==
    \A i \in DOMAIN message_times :
        now - window_seconds <= message_times[i] /\ message_times[i] <= now

\* C16: no retained timestamp is ever later than now, and when a call of
\* can_send_message returns, every retained timestamp lies within
\* [now - window_seconds, now]; between calls older ones may stay.
C16_WithinWindowAfterCheck ==
    [][/\ \A i \in DOMAIN message_times' : message_times'[i] <= now'
       /\ RateCheckStep =>
              \A i \in DOMAIN message_times' :
                  now' - window_seconds <= message_times'[i]
      ]_vars

\* A rate check has dropped the older of two recorded sends and kept the
\* newer one.
C16_Witness ==
    /\ log.event \in DeliverEvents
    /\ log.rate_checked
    /\ chat = 2
    /\ Len(message_times) = 1
    /\ now - window_seconds <= message_times[1]

\* ------------------------------------------------- claims on the startup
\* The set of the elements of a sequence.
Range(s) == {s[i] : i \in DOMAIN s}

\* C17: send_message(startup_greeting) is called at most once; when run()
\* has reached its keep-alive loop it was called exactly when the greeting
\* generated is not None; the call comes after the typing signal and the
\* typing sleep, delivers one message when it does not raise, and neither
\* evaluates the response gate (nothing is logged by it) nor reads or
\* changes the deque of the rate limiter, whatever that holds.
C17_GreetingSentOnceIffGenerated ==
    [][/\ run'.greeting_sends <= 1
       /\ run'.pc = "running" => (run'.greeting_sends = 1 <=> Truthy(run'.greeting))
       /\ run'.greeting_sends # run.greeting_sends =>
              /\ run.pc = "greeting_typing"
              /\ "typing" \in Range(signals)
              /\ Truthy(run.greeting)
              /\ run'.pc = "running" => chat' = chat + 1
              /\ message_times' = message_times
              /\ log' = log
       /\ run.pc = "greeting_typing" => ENABLED SendGreeting(TRUE)
      ]_all_vars

\* The greeting has gone out in a run in which three replies were sent and
\* recorded within the window: the limiter refuses, the greeting never
\* asked it.
C17_Witness ==
    /\ run.pc = "running"
    /\ run.greeting_sends = 1
    /\ chat = MaxSends + 1
    /\ ~can_send_message(message_times, now).result

\* The environment of the run lacks a required setting, holds an
\* unreadable TELEGRAM_API_ID, or holds a value validate_config rejects.
ConfigurationError ==
    \/ missing_vars(run.env) # {}
    \/ load_config_raises(run.env)
    \/ validate_config_raises(run.env)

\* C18: with a configuration error the run never connects, never sets or
\* registers the message handler, never handles an event and never sends.
C18_ConfigErrorIsFatal ==
    ConfigurationError =>
        /\ run.pc \in {"new", "stopped"}
        /\ ~run.connected
        /\ ~run.message_handler
        /\ ~run.monitoring
        /\ cycles = EmptyBag
        /\ chat = 0
        /\ run.greeting_sends = 0
        /\ signals = <<>>

\* run() has ended on a value validate_config rejects, all required
\* settings being present.
C18_Witness ==
    /\ run.pc = "stopped"
    /\ ~load_config_raises(run.env)
    /\ run.env.CONTEXT_MESSAGES < 1

\* ---------------------------------------------- claims on the classifier
\* C19: for every text (every combination of the six features, every count
\* of tech keywords, the empty text and a message without text) the score
\* lies in [0, 1] (0 to 100 hundredths).
C19_ScoreInUnitInterval ==
    /\ 0 <= scored.score
    /\ scored.score <= 100

\* A text with all six features and MaxTechWords tech keywords, whose sum
\* of 1.65 is clamped to 1.
C19_Witness ==
    /\ scored.text = Compose([k \in 1..Len(Fragments) |-> TRUE], 1)
    /\ CountIn(tech_keywords, lower(scored.text)) = MaxTechWords
    /\ scored.score = 100

\* ---------------------------------------------------------------- C21..C30
\* The lower-cased text holds a group-address word, a help-seeking phrase, a
\* tech keyword and a question mark.
AddressedHelpTechQuestion(t) ==
    /\ t # NoneText
    /\ AnyIn(group_address, lower(t))
    /\ AnyIn(help_phrases, lower(t))
    /\ AnyIn(tech_keywords, lower(t))
    /\ contains(<<"?">>, lower(t))

\* Which of the sample and of the composed texts carry the four features.
addressed_help_tech_question ==
    [t \in Texts \cup ComposedTexts |-> AddressedHelpTechQuestion(t)]

\* Every composed text with the four features scores above 0.4.
composed_four_features_high ==
    \A t \in ComposedTexts :
        addressed_help_tech_question[t] => composed_probability[t] > 40

\* C21: a text with a group-address word, a help-seeking phrase, a tech
\* keyword and a question mark scores above 0.4 (every composed text, and
\* the sample text of an inbound message), and a message without trigger
\* that carries such a text passes the gate with no draw of random.random():
\* only the rate check decides between the thinking delay and a skip.
C21_FourFeaturesScoreHigh ==
    /\ composed_four_features_high
    /\ (Gated /\ addressed_help_tech_question[log.msg.text])
          => /\ Score > 40
             /\ log.coin = NoDraw
             /\ log.fallback = NoDraw
             /\ log.event \in {"thinking", "skip_rate"}
             /\ NoTrigger(log.msg)
                  => /\ log.rate_checked
                     /\ (log.event = "thinking" <=> log.can_send)

\* C21 witness: "ciao ragazzi, qualcuno sa come si aggiorna whatsapp?" came
\* without reply target or image, passed the gate without a draw and the
\* rate check let it through.
C21_Witness ==
    /\ Gated
    /\ log.msg.text = TextWhatsapp
    /\ addressed_help_tech_question[log.msg.text]
    /\ NoTrigger(log.msg)
    /\ log.coin = NoDraw
    /\ log.fallback = NoDraw
    /\ log.rate_checked
    /\ log.can_send
    /\ log.event = "thinking"

\* C22: calculate_boomer_typing_time returns between 2.0 and 180.0 seconds
\* (8 and 720 quarters) for every text, the empty one included, and every
\* outcome of its random calls.
C22_TypingTimeInRange ==
    typed.called => (8 <= typed.total_time /\ typed.total_time <= 720)

\* The tech words and punctuation marks of both texts are as many.
SameCounts(a, b) ==
    /\ typing_counts[a].tech_mentions = typing_counts[b].tech_mentions
    /\ typing_counts[a].punctuation_count = typing_counts[b].punctuation_count

\* C23: with the values of the random calls held fixed and as many tech
\* words and punctuation marks, a text never gets a shorter typing time
\* than a shorter text (the empty text included).
C23_MonotoneInLength ==
    typed.called =>
        \A shorter \in TypedTexts :
            (SameCounts(shorter, typed.message) /\ Len(shorter) <= Len(typed.message))
                => calculate_boomer_typing_time(shorter, typed.draws) <= typed.total_time

\* C23 witness: a text of 20 letters with a time strictly between the
\* clamps, above the time the same draws give the text of 19 letters.
C23_Witness ==
    /\ typed.called
    /\ Len(typed.message) = 20
    /\ typing_counts[typed.message].tech_mentions = 0
    /\ 8 < typed.total_time
    /\ typed.total_time < 720
    /\ \E shorter \in TypedTexts :
          /\ SameCounts(shorter, typed.message)
          /\ Len(shorter) = 19
          /\ calculate_boomer_typing_time(shorter, typed.draws) < typed.total_time

\* C24: the context built for an inbound message never holds more entries
\* than the configured context_messages.
C24_ContextWithinConfiguredLength ==
    context.called => Len(context.messages) <= run.env.CONTEXT_MESSAGES

\* The head of the cycle treated the message as a direct trigger: it went on
\* to the thinking delay with no draw and without asking the rate limiter.
TreatedAsDirect ==
    /\ log.event = "thinking"
    /\ ~log.rate_checked
    /\ log.coin = NoDraw
    /\ log.fallback = NoDraw

\* C25: a message is treated as a direct trigger exactly when it replies to
\* a message of the agent itself or its text holds a mention; a reply to
\* another participant without a mention is not.
C25_DirectIffOwnReplyOrMention ==
    Gated => (TreatedAsDirect <=> (log.msg.reply_to_own \/ mentioned[log.msg.text]))

\* The cycle followed request by request has ended.
CycleEnded == handling.pc \in {"recorded", "noop", "error"}

\* C26: a failing 'typing' request (of the keep_typing loop or of
\* start_typing), a failing 'cancel typing' request or a failing fetch of a
\* replied-to message never ends the cycle: type_while_processing does not
\* raise, the cycle always has a next step until it has ended, it ends in
\* the error branch only when send_message failed and without a send only
\* when no response was generated; a response that was sent is recorded.
C26_CollaboratorErrorsDoNotAbort ==
    /\ tw.pc # "raised"
    /\ ~CycleEnded => ENABLED CycleNext
    /\ handling.pc = "error" => "send" \in handling.failures
    /\ handling.pc = "noop" => ~Truthy(handling.response)
    /\ handling.pc = "recorded"
          => /\ Truthy(handling.response)
             /\ chat = 1
             /\ message_times = <<now>>

\* C26 witness: the fetch of the replied-to message, a 'typing' request of
\* the loop, the 'cancel typing' request and the request of start_typing
\* all failed, and the response was sent and recorded.
C26_Witness ==
    /\ handling.pc = "recorded"
    /\ handling.failures = {"replied_to", "keep_typing", "stop_typing", "start_typing"}
    /\ chat = 1
    /\ message_times = <<now>>

\* C27: a call of process_message or process_startup_message issues at most
\* one request to the completion endpoint: none when the prompt cannot be
\* built or the credential is missing, else exactly one, also when that
\* request fails (timeout, connection error, status other than 200,
\* malformed or empty body).
C27_AtMostOneRequest ==
    api.operation # "none" =>
        /\ api.outcome.requests <= 1
        /\ api.outcome.requests = 1
              <=> (api.call.prompt_ok /\ api.call.OPENROUTER_API_KEY # <<>>)

\* C27 witness: the one request made for an inbound message timed out, and
\* the call returned None without a second one.
C27_Witness ==
    /\ api.operation = "process_message"
    /\ api.call.prompt_ok
    /\ api.call.OPENROUTER_API_KEY # <<>>
    /\ api.call.transport = "Timeout"
    /\ api.outcome = Return(NoneText, 1)

\* C28: the timestamps of message_times are in ascending order, oldest
\* first (the clock never going back).
C28_MessageTimesSorted ==
    \A i \in 1..Len(message_times) : \A j \in i..Len(message_times) :
        message_times[i] <= message_times[j]

\* C28 witness: two sends at different ticks are retained, the older first.
C28_Witness ==
    /\ Len(message_times) >= 2
    /\ message_times[1] < message_times[Len(message_times)]

\* The retained timestamps that are exactly window_seconds old at t.
AtBoundary(times, t) ==
    Cardinality({i \in 1..Len(times) : times[i] = t - window_seconds})

\* C29: can_send_message drops exactly the timestamps strictly older than
\* now - window_seconds: one that is exactly window_seconds old is kept, as
\* is every younger one, and it counts: with max_messages sends exactly
\* window_seconds old the answer is false.
C29_BoundaryRetainedAndCounted ==
    [][RateCheckStep =>
          /\ message_times' =
                 SelectSeq(message_times, LAMBDA ts : ts >= now - window_seconds)
          /\ AtBoundary(message_times, now) >= max_messages => ~log'.can_send
      ]_vars

\* C29 witness: max_messages sends were recorded at one tick and a rate
\* check made exactly window_seconds later kept them all and answered false.
C29_Witness ==
    /\ log.event = "skip_rate"
    /\ log.rate_checked
    /\ ~log.can_send
    /\ Len(message_times) >= max_messages
    /\ AtBoundary(message_times, now) = Len(message_times)

\* C30: a message of a bot is skipped when ignore_bots is true, and reaches
\* the gate like any other message when ignore_bots is false.
C30_BotFilterFollowsSetting ==
    (log.event \in DeliverEvents /\ log.msg.bot)
        => (log.event = "skip_bot" <=> ignore_bots)

\* ---------------------------------------------------------------- C31..C37
\* C31: no step of run() (initialisation, connection, group selection,
\* start of monitoring, the startup greeting with its send, shutdown)
\* touches the rate limiter: message_times is left as it is and no
\* can_send_message() is logged, so the greeting takes no place in the
\* window.
C31_StartupLeavesRateLimiter ==
    [][run' # run => (message_times' = message_times /\ log' = log)]_all_vars

\* C31 witness: the greeting and max_messages - 1 replies are in the group
\* at tick 0, only the replies are in the window, and the rate check of a
\* further message answered true.
C31_Witness ==
    /\ run.pc = "running"
    /\ run.greeting_sends = 1
    /\ now = 0
    /\ chat = max_messages
    /\ Len(message_times) = max_messages - 1
    /\ log.event = "thinking"
    /\ log.rate_checked
    /\ log.can_send

\* C32: however the handling cycles interleave, the replies to messages
\* without direct trigger sent within the last window_seconds are never
\* more than max_messages.
C32_WindowNeverExceeded == RecentSends(message_times, now) <= max_messages

\* C33: a step appends a timestamp to the rate window exactly when it is a
\* successful send of a reply, also when the reply answers a direct trigger
\* (no rate check was made for it) or an image; and the rate check of a
\* later message without direct trigger counts those timestamps like any
\* other.
C33_EverySendRecordedOnce ==
    [][/\ chat' = chat + 1 <=> message_times' = Append(message_times, now)
       /\ chat' = chat \/ chat' = chat + 1
       /\ RateCheckStep => (log'.can_send <=> Len(message_times') < max_messages)
      ]_vars

\* C33 witness: max_messages replies were sent within one window to
\* messages with a direct trigger or an image, every one of them has its
\* timestamp, and an image without direct trigger was then refused by the
\* rate check.
C33_Witness ==
    /\ chat = max_messages
    /\ Len(message_times) = chat
    /\ RecentSends(message_times, now) = chat
    /\ log.event = "skip_rate"
    /\ log.msg.current_image
    /\ ~is_direct(log.msg)

\* C34: a message the agent itself wrote never makes it generate and send
\* a further message: when, after one message of a participant, the only
\* events are the agent's own replies, no more than the one reply to the
\* participant is ever sent.
C34_NoSelfReply == chat <= 1

\* C35: when send_message raises for the startup greeting, run() goes on:
\* whichever way the send of the greeting ends, the next position of run()
\* is the keep-alive loop, with the new-message callback still registered
\* and the client still connected.
C35_GreetingFailureKeepsRunning ==
    [][run.pc = "greeting_typing" /\ run'.pc # run.pc
          => run'.pc = "running" /\ run'.monitoring /\ run'.connected]_all_vars

\* The handler went through its TYPING phase: it got a response and called
\* start_typing for it.
PassedStartTyping == handling.pc \in {"START_TYPING", "TYPING", "SENDING", "recorded", "error"}

\* C36: a cycle that ends after the 'typing' request of start_typing went
\* through has either sent its response or asked for 'cancel typing' after
\* that signal, also when send_message raised.
C36_TypingReleasedOnEveryExit ==
    CycleEnded /\ PassedStartTyping /\ "start_typing" \notin handling.failures
        => \/ handling.pc = "recorded"
           \/ signals # <<>> /\ signals[Len(signals)] = "cancel"

\* The keep_typing task of the cycle is not pending: none was created, or
\* it ran to its end, or it ended cancelled.
KeepTypingOver == tw.typing_task \in {"none", "done", "cancelled"}

\* C37: on an event loop that runs what is ready, with collaborators that
\* answer and sleeps that elapse, a cycle that passed the gate reaches a
\* terminal state (no-op after a failed generation, error, or recorded),
\* it does not leave that state for another one, and the keep_typing task
\* started for it is over when the handler resumes from
\* type_while_processing, hence before the terminal state.
C37_EveryCycleTerminates ==
    /\ <>CycleEnded
    /\ [][CycleEnded => handling'.pc = handling.pc]_all_vars
    /\ [][handling.pc = "GENERATING" /\ handling'.pc # "GENERATING" => KeepTypingOver]_all_vars
    /\ [](CycleEnded => KeepTypingOver)

\* C37 witness: a cycle has ended with its reply recorded after the
\* keep_typing loop had sent a 'typing' request, had been cancelled by the
\* finally block ('cancel typing' follows), and start_typing had sent its
\* own request.
C37_Witness ==
    /\ handling.pc = "recorded"
    /\ Len(signals) >= 3
    /\ signals[1] = "typing"
    /\ signals[Len(signals) - 1] = "cancel"
    /\ signals[Len(signals)] = "typing"
    /\ KeepTypingOver

====
